---- MODULE Spec2Model ----
(***************************************************************************)
(* A model of the semantic HTML search backend: the sliding-window         *)
(* TextChunker (backend/chunking.py), the Pinecone-backed VectorStore      *)
(* (backend/vector_store.py) and the /search handler (backend/app.py).     *)
(*                                                                         *)
(* ChunkSpec runs the chunker: construction, then chunk_text one loop      *)
(* condition or body per step (ChunkFairSpec adds that a running loop      *)
(* keeps running).  StoreSpec runs the vector store with one writer        *)
(* (index_chunks, clear) and one reader (search, get_stats) that           *)
(* interleave at the calls they make to the backend, the embedding model   *)
(* and the clock; SeqStoreSpec runs the same steps one call at a time.     *)
(* HandlerSpec runs /search requests one at a time through the chunker     *)
(* and index_chunks; BatchSpec runs one index_chunks call on a list long   *)
(* enough to need several upsert batches.                                  *)
(* The Pinecone index, the embedding model and the tokenizer are external: *)
(* the index is modelled as strongly consistent, and each of its calls     *)
(* either takes effect as documented or raises.                            *)
(***************************************************************************)
EXTENDS Integers, Sequences, FiniteSets, TLC

\* ------------------------------------------------------------- bounds ----
\* Longest token sequence handed to chunk_text.
MaxTokens == 6
\* Largest max_tokens / overlap_tokens handed to the constructor.
MaxCfg == 3

\* Constructor arguments: any integers are accepted by Python, so the range
\* holds zero and a negative value too.
CfgRange == (-1)..MaxCfg
\* The chunk list and the chunk counter are recorded up to this many
\* entries, and the cursor down to MinStart; a loop that goes past them keeps
\* running with the recorded part frozen.  No run of a chunker with
\* 0 <= overlap_tokens < max_tokens gets there: it emits at most MaxTokens
\* chunks and its cursor never goes below 0.
MaxRecorded == MaxTokens + 2
MinStart == -(MaxTokens + MaxCfg + 1)

\* Longest chunk list handed to index_chunks.
MaxChunksIn == 2
\* Number of index_chunks calls in one run.
MaxIndexCalls == 2
\* Last millisecond the clock reaches.
MaxTime == 1
\* Number of full batches in the longest chunk list of a batched
\* index_chunks call.
MaxFullBatches == 2

Min(a, b) == IF a < b THEN a ELSE b
Max(a, b) == IF a > b THEN a ELSE b

VARIABLES
    \* ---- TextChunker ----
    cpc,             \* "new" | "ready" | "loop" | "body" | "done"
    cerr,            \* what the last constructor call raised, or "none"
    max_tokens,      \* self.max_tokens
    overlap_tokens,  \* self.overlap_tokens
    tokens,          \* chunk_text: tokens
    start_idx,       \* chunk_text: start_idx
    chunk_index,     \* chunk_text: chunk_index
    chunks,          \* chunk_text: chunks
    \* ---- the Pinecone index and the clock ----
    store,           \* namespace -> set of vector records (unique ids)
    now,             \* int(time.time() * 1000)
    \* ---- writer: index_chunks / clear ----
    w_pc,            \* "idle" | "delete" | "encode" | "build" | "upsert" | "done"
    w_op,            \* "none" | "index" | "clear"
    w_chunks,        \* index_chunks: chunks
    w_ns,            \* index_chunks / clear: namespace
    w_embeddings,    \* index_chunks: embeddings
    w_vectors,       \* index_chunks: vectors
    w_i,             \* index_chunks: i of the upsert loop
    w_err,           \* the exception the call raised, or "none"
    w_before,        \* history: the store when the call started
    w_log,           \* history: the backend and model calls the call issued
    n_index,         \* history: index_chunks calls started
    indexed,         \* history: an index_chunks call has upserted since the
                     \* construction and the last clear
    w_last,          \* history: the last index_chunks call that ended, if
                     \* neither the model nor the backend failed it
    w_batches,       \* history: the batches the call has upserted, in order
    \* ---- reader: search / get_stats ----
    r_pc,            \* "idle" | "stats" | "encode" | "query" | "done"
    r_op,            \* "none" | "search" | "get_stats"
    r_query,         \* search: query
    r_top_k,         \* search: top_k
    r_ns,            \* search: namespace
    r_qvec,          \* search: query_embedding
    r_result,        \* the value returned
    r_err,           \* the exception the call raised, or "none"
    r_obs,           \* history: what the search read from the backend while
                     \* an index_chunks call on its namespace was running
    \* ---- app: the /search handler ----
    vector_store,    \* the global: "None" | "VectorStore"
    h_pc,            \* "idle" | "fetch" | "chunk" | "index" | "done"
    h_status,        \* the status code the request ended with, 0 while none
    h_stages         \* history: the steps of the request that have ended,
                     \* each with the exception it ended with, or "none"

chunkVars == <<cpc, cerr, max_tokens, overlap_tokens, tokens, start_idx,
               chunk_index, chunks>>

storeVars == <<store, now>>

writerVars == <<w_pc, w_op, w_chunks, w_ns, w_embeddings, w_vectors, w_i,
                w_err, w_before, w_log, n_index, indexed, w_last,
                w_batches>>

readerVars == <<r_pc, r_op, r_query, r_top_k, r_ns, r_qvec, r_result, r_err,
                r_obs>>

handlerVars == <<vector_store, h_pc, h_status, h_stages>>

vars == <<chunkVars, storeVars, writerVars, readerVars, handlerVars>>

\* ------------------------------------------------------- TextChunker ----

\* tokenizer.encode(text, add_special_tokens=False): an external tokenizer;
\* the text is known here only by its tokens, token i being the i-th of N.
Encode(n) == [i \in 1..n |-> i]

\* tokenizer.decode(chunk_tokens, skip_special_tokens=True): external; the
\* decoded text is identified by the tokens it was decoded from.
Decode(toks) == <<"text", toks>>

\* Python's clamping of one slice bound against a sequence of length n.
PyBound(i, n) == IF i < 0 THEN Max(i + n, 0) ELSE Min(i, n)

\* tokens[start:end] with Python's slice semantics (negative bounds count
\* from the end, out-of-range bounds are clamped, an inverted range is empty).
PySlice(toks, start, end) ==
    SubSeq(toks, PyBound(start, Len(toks)) + 1, PyBound(end, Len(toks)))

\* EndIdx without the clamp to the end of the token sequence.
EndIdxNoClamp(start, maxTok, total) == start + maxTok

\* end_idx = min(start_idx + self.max_tokens, total_tokens)
EndIdx(start, maxTok, total) == Min(start + maxTok, total)

\* NextStart that forgets the overlap.
NextStartNoOverlap(end, overlap) == end

\* start_idx = end_idx - self.overlap_tokens
NextStart(end, overlap) == end - overlap

\* ChunkRecord numbering the chunks from 1.
ChunkRecordOneBased(idx, toks, start, end) ==
    [chunk_index |-> idx + 1,
     text        |-> Decode(PySlice(toks, start, end)),
     start_token |-> start,
     end_token   |-> end,
     token_count |-> Len(PySlice(toks, start, end))]

\* The dict appended for one window.
ChunkRecord(idx, toks, start, end) ==
    [chunk_index |-> idx,
     text        |-> Decode(PySlice(toks, start, end)),
     start_token |-> start,
     end_token   |-> end,
     token_count |-> Len(PySlice(toks, start, end))]

\* if end_idx >= total_tokens: break
LoopBreaks(end, total) == end >= total

\* A chunker step touches nothing of the vector store or of the handler.
StoreUntouched == UNCHANGED <<storeVars, writerVars, readerVars, handlerVars>>

ChunkInit ==
    /\ cpc = "new"
    /\ cerr = "none"
    /\ max_tokens = 0
    /\ overlap_tokens = 0
    /\ tokens = <<>>
    /\ start_idx = 0
    /\ chunk_index = 0
    /\ chunks = <<>>

\* TextChunker(max_tokens=m, overlap_tokens=o): the tokenizer loads and the
\* two arguments are stored as given.
Construct(m, o) ==
    /\ cpc = "new"
    /\ cpc' = "ready"
    /\ cerr' = "none"
    /\ max_tokens' = m
    /\ overlap_tokens' = o
    /\ UNCHANGED <<tokens, start_idx, chunk_index, chunks>>
    /\ StoreUntouched

\* AutoTokenizer.from_pretrained raises: no chunker is constructed.
ConstructFails ==
    /\ cpc = "new"
    /\ cerr = "none"
    /\ cerr' = "CollaboratorFailure"
    /\ UNCHANGED <<cpc, max_tokens, overlap_tokens, tokens, start_idx,
                   chunk_index, chunks>>
    /\ StoreUntouched

\* chunk_text(text) up to the loop: tokenize, reset the locals.
ChunkCall(n) ==
    /\ cpc = "ready"
    /\ cpc' = "loop"
    /\ tokens' = Encode(n)
    /\ start_idx' = 0
    /\ chunk_index' = 0
    /\ chunks' = <<>>
    /\ UNCHANGED <<cerr, max_tokens, overlap_tokens>>
    /\ StoreUntouched

\* while start_idx < total_tokens: one evaluation of the loop condition.
ChunkTest ==
    /\ cpc = "loop"
    /\ cpc' = IF start_idx < Len(tokens) THEN "body" ELSE "done"
    /\ UNCHANGED <<cerr, max_tokens, overlap_tokens, tokens, start_idx,
                   chunk_index, chunks>>
    /\ StoreUntouched

\* One execution of the loop body.
ChunkBody ==
    /\ cpc = "body"
    /\ LET end_idx == EndIdx(start_idx, max_tokens, Len(tokens)) IN
       /\ chunks' = IF Len(chunks) < MaxRecorded
                    THEN Append(chunks, ChunkRecord(chunk_index, tokens,
                                                    start_idx, end_idx))
                    ELSE chunks
       /\ chunk_index' = Min(chunk_index + 1, MaxRecorded)
       /\ IF LoopBreaks(end_idx, Len(tokens))
          THEN /\ cpc' = "done"
               /\ start_idx' = start_idx
          ELSE /\ cpc' = "loop"
               /\ start_idx' = Max(NextStart(end_idx, overlap_tokens),
                                   MinStart)
    /\ UNCHANGED <<cerr, max_tokens, overlap_tokens, tokens>>
    /\ StoreUntouched

\* return chunks: the chunker is ready for the next call.
ChunkReturn ==
    /\ cpc = "done"
    /\ cpc' = "ready"
    /\ UNCHANGED <<cerr, max_tokens, overlap_tokens, tokens, start_idx,
                   chunk_index, chunks>>
    /\ StoreUntouched

\* ------------------------------------------------------- VectorStore ----

\* The default namespace and one named namespace.
Namespaces == {"", "a"}

\* The queries searched for.
Queries == {1}

\* search(query, top_k: int = 10, ...)
DefaultTopK == 10
TopKs == {1, DefaultTopK}

\* A chunk as test_vector_store_indexing and index_chunks' docstring shape
\* it: 'text', 'start', 'end'.  The text is known by its document and
\* position.
StoreChunk(d, i) == [text |-> <<d, i>>, start |-> 0, end |-> i + 1]

\* A chunk as TextChunker.chunk_text emits it (see ChunkRecord).
ChunkerChunk(d, i) ==
    [chunk_index |-> i, text |-> <<d, i>>, start_token |-> i,
     end_token |-> i + 1, token_count |-> 1]

\* The chunk lists handed to index_chunks for document d: the empty list,
\* and lists of either shape.
ChunkInputs(d) ==
    {<<>>}
    \cup {[i \in 1..n |-> StoreChunk(d, i - 1)] : n \in 1..MaxChunksIn}
    \cup {[i \in 1..n |-> ChunkerChunk(d, i - 1)] : n \in 1..MaxChunksIn}

\* self.model.encode(..., normalize_embeddings=True): an external model.  An
\* embedding is abstracted to the angle of a unit vector, in steps; texts
\* of different documents or positions get different angles.
EmbedText(text) == 4 * text[2] + text[1]
EmbedQuery(q) == 2 + q

\* The (cosine) score Pinecone gives two unit vectors, scaled to integers:
\* highest for the same angle and lower the further apart, so that two
\* vectors on either side of the query tie.
Cosine(a, b) == IF a >= b THEN 20 - (a - b) ELSE 20 - (b - a)

\* if not chunks  (a variant that never sees the list as empty comes first)
EmptyChunksIgnored(chunksIn) == FALSE

\* if not chunks
EmptyChunks(chunksIn) == chunksIn = <<>>

\* chunk['text'], chunk['start'], chunk['end']: a missing key raises KeyError.
HasVectorKeys(chunk) == {"text", "start", "end"} \subseteq DOMAIN chunk

\* vector_id = f"chunk_{idx}_{int(time.time() * 1000)}"
VectorId(idx, t) == <<idx, t>>

\* The dict appended to vectors for chunk number idx.
VectorRecord(idx, chunk, embedding, t) ==
    [id       |-> VectorId(idx, t),
     values   |-> embedding,
     metadata |-> [text        |-> chunk.text,
                   start       |-> chunk.start,
                   end         |-> chunk.end,
                   chunk_index |-> idx]]

\* batch_size = 100
batch_size == 100

\* Batch with a slice that runs one vector too far.
BatchOneTooFar(vectors, i) ==
    SubSeq(vectors, i + 1, Min(i + batch_size + 1, Len(vectors)))

\* vectors[i:i + batch_size]
Batch(vectors, i) == SubSeq(vectors, i + 1, Min(i + batch_size, Len(vectors)))

Range(f) == {f[x] : x \in DOMAIN f}

\* index.delete(delete_all=True, namespace=ns): every vector of ns goes.
\* Without a namespace argument Pinecone addresses the default namespace "".
BackendDelete(st, ns) == [st EXCEPT ![ns] = {}]

\* index.upsert(vectors=batch, namespace=ns): each vector is inserted, or
\* replaces the stored vector of the same id.
BackendUpsert(st, ns, batch) ==
    [st EXCEPT ![ns] =
        {v \in @ : \A k \in DOMAIN batch : batch[k].id # v.id} \cup Range(batch)]

\* index.describe_index_stats(): the total over all namespaces, and a count
\* for each namespace that holds vectors.
RECURSIVE SumCounts(_, _)
SumCounts(st, nss) ==
    IF nss = {} THEN 0
    ELSE LET ns == CHOOSE x \in nss : TRUE IN
         Cardinality(st[ns]) + SumCounts(st, nss \ {ns})

DescribeIndexStats(st) ==
    [total_vector_count |-> SumCounts(st, Namespaces),
     namespaces |-> [ns \in {x \in Namespaces : st[x] # {}} |->
                        [vector_count |-> Cardinality(st[ns])]]]

\* stats.get('namespaces', {}).get(namespace, {}).get('vector_count', 0)
NamespaceCount(stats, ns) ==
    IF ns \in DOMAIN stats.namespaces
    THEN stats.namespaces[ns].vector_count ELSE 0

\* The condition under which search raises "not indexed" after a successful
\* describe_index_stats.
NoVectors(stats, ns) ==
    IF ns # "" THEN NamespaceCount(stats, ns) = 0
    ELSE stats.total_vector_count = 0

\* index.query(vector, top_k, namespace, include_metadata=True): the top_k
\* vectors of the namespace by score, best first.  Pinecone fixes no order
\* among equal scores: every order of them is a possible answer.
RECURSIVE BackendQuery(_, _, _)
BackendQuery(vecs, qvec, k) ==
    IF k = 0 \/ vecs = {} THEN {<<>>}
    ELSE UNION {
            {<<[id |-> v.id, score |-> Cosine(qvec, v.values),
                metadata |-> v.metadata]>> \o rest :
                 rest \in BackendQuery(vecs \ {v}, qvec, k - 1)} :
            v \in {x \in vecs : \A y \in vecs :
                      Cosine(qvec, x.values) >= Cosine(qvec, y.values)}}

\* The (chunk, score) tuples search builds from the matches.
FormatResults(matches) ==
    [j \in 1..Len(matches) |->
        <<[text  |-> matches[j].metadata.text,
           start |-> matches[j].metadata.start,
           end   |-> matches[j].metadata.end],
          matches[j].score>>]

\* One vector an earlier process left in the index: the index is persistent
\* and the constructor attaches to it as it is.
LeftoverVector ==
    [id |-> VectorId(0, -1), values |-> EmbedText(<<0, 0>>),
     metadata |-> [text |-> <<0, 0>>, start |-> 0, end |-> 1, chunk_index |-> 0]]

EmptyStore == [ns \in Namespaces |-> {}]

\* _ensure_index: the index was just created (empty), or it existed and
\* holds what an earlier run upserted.
InitialStores ==
    {EmptyStore} \cup {[EmptyStore EXCEPT ![ns] = {LeftoverVector}] : ns \in Namespaces}

\* A vector store step touches nothing of the chunker or of the handler.
ChunkerUntouched == UNCHANGED <<chunkVars, handlerVars>>

WriterIdleValues ==
    /\ w_pc = "idle" /\ w_op = "none" /\ w_chunks = <<>> /\ w_ns = ""
    /\ w_embeddings = <<>> /\ w_vectors = <<>> /\ w_i = 0 /\ w_err = "none"
    /\ w_before = EmptyStore /\ w_log = {} /\ w_batches = <<>>

ReaderIdleValues ==
    /\ r_pc = "idle" /\ r_op = "none" /\ r_query = 0 /\ r_top_k = 0
    /\ r_ns = "" /\ r_qvec = 0 /\ r_result = <<>> /\ r_err = "none"
    /\ r_obs = <<>>

\* History: no index_chunks call has returned.
NoIndexCall == [chunks |-> <<>>, ns |-> "", err |-> "none"]

\* VectorStore(): the state after construction.
StoreInit ==
    /\ store \in InitialStores
    /\ now = 0
    /\ WriterIdleValues
    /\ n_index = 0
    /\ indexed = FALSE
    /\ w_last = NoIndexCall
    /\ ReaderIdleValues

\* The clock advances.
Tick ==
    /\ now < MaxTime
    /\ now' = now + 1
    /\ UNCHANGED <<store, writerVars, readerVars>>
    /\ ChunkerUntouched

\* ---- index_chunks ----

\* index_chunks(chunksIn, ns) up to its first call out: the empty-list check
\* and the choice between clearing the namespace and going on to embed.
\* Each call brings a new document: the k-th call indexes document k.
IndexChunksCall(chunksIn, ns) ==
    /\ w_pc = "idle"
    /\ n_index < MaxIndexCalls
    /\ n_index' = n_index + 1
    /\ w_op' = "index"
    /\ w_chunks' = chunksIn
    /\ w_ns' = ns
    /\ w_before' = store
    /\ w_log' = {}
    /\ IF EmptyChunks(chunksIn)
       THEN w_pc' = "done" /\ w_err' = "EmptyInput"
       ELSE w_pc' = (IF ns # "" THEN "delete" ELSE "encode") /\ w_err' = "none"
    /\ w_batches' = <<>>
    /\ UNCHANGED <<w_embeddings, w_vectors, w_i, indexed, w_last, storeVars,
                   readerVars>>
    /\ ChunkerUntouched

\* self.index.delete(delete_all=True, namespace=namespace) inside
\* try/except-pass: the namespace is emptied, or the call raises and the
\* exception is swallowed.
IndexDelete ==
    /\ w_pc = "delete"
    /\ \E ok \in BOOLEAN :
          store' = IF ok THEN BackendDelete(store, w_ns) ELSE store
    /\ w_log' = w_log \cup {"delete"}
    /\ w_pc' = "encode"
    /\ UNCHANGED <<w_op, w_chunks, w_ns, w_embeddings, w_vectors, w_i, w_err,
                   w_before, n_index, indexed, w_last, w_batches, now, readerVars>>
    /\ ChunkerUntouched

\* Where the call goes once the embeddings are there: into the build loop,
\* or (no chunk to build, no batch to upsert) to its end.
AfterEncode(chunksIn) == IF Len(chunksIn) = 0 THEN "done" ELSE "build"

\* embeddings = self.model.encode(texts, ...): one embedding per chunk text.
\* (Every chunk shape in use has a 'text'.)
IndexEncode ==
    /\ w_pc = "encode"
    /\ w_log' = w_log \cup {"encode"}
    /\ w_embeddings' = [k \in 1..Len(w_chunks) |-> EmbedText(w_chunks[k].text)]
    /\ w_pc' = AfterEncode(w_chunks)
    /\ UNCHANGED <<w_op, w_chunks, w_ns, w_vectors, w_i, w_err, w_before,
                   n_index, indexed, w_last, w_batches, storeVars, readerVars>>
    /\ ChunkerUntouched

\* self.model.encode raises: the exception leaves index_chunks.
IndexEncodeFails ==
    /\ w_pc = "encode"
    /\ w_log' = w_log \cup {"encode"}
    /\ w_pc' = "done"
    /\ w_err' = "CollaboratorFailure"
    /\ UNCHANGED <<w_op, w_chunks, w_ns, w_embeddings, w_vectors, w_i,
                   w_before, n_index, indexed, w_last, w_batches, storeVars, readerVars>>
    /\ ChunkerUntouched

\* One iteration of the loop that prepares the vectors: chunk number
\* idx = len(vectors) becomes a vector record stamped with the clock, or a
\* key it lacks raises KeyError.
IndexBuildVector ==
    /\ w_pc = "build"
    /\ LET idx == Len(w_vectors)
           chunk == w_chunks[idx + 1] IN
       IF HasVectorKeys(chunk)
       THEN /\ w_vectors' = Append(w_vectors,
                                   VectorRecord(idx, chunk,
                                                w_embeddings[idx + 1], now))
            /\ w_pc' = IF idx + 1 < Len(w_chunks) THEN "build" ELSE "upsert"
            /\ w_err' = w_err
       ELSE /\ w_pc' = "done"
            /\ w_err' = "KeyError"
            /\ w_vectors' = w_vectors
    /\ w_i' = 0
    /\ UNCHANGED <<w_op, w_chunks, w_ns, w_embeddings, w_before, w_log,
                   n_index, indexed, w_last, w_batches, storeVars, readerVars>>
    /\ ChunkerUntouched

\* One iteration of the upsert loop: the batch at i is upserted and i moves
\* on by batch_size.
IndexUpsertBatch ==
    /\ w_pc = "upsert"
    /\ store' = BackendUpsert(store, w_ns, Batch(w_vectors, w_i))
    /\ w_log' = w_log \cup {"upsert"}
    /\ w_batches' = Append(w_batches, Batch(w_vectors, w_i))
    /\ indexed' = TRUE
    /\ w_i' = w_i + batch_size
    /\ w_pc' = IF w_i + batch_size < Len(w_vectors) THEN "upsert" ELSE "done"
    /\ UNCHANGED <<w_op, w_chunks, w_ns, w_embeddings, w_vectors, w_err,
                   w_before, n_index, w_last, now, readerVars>>
    /\ ChunkerUntouched

\* self.index.upsert raises: nothing of this batch is stored, the batches
\* before it stay, and the exception leaves index_chunks.
IndexUpsertFails ==
    /\ w_pc = "upsert"
    /\ w_log' = w_log \cup {"upsert"}
    /\ w_pc' = "done"
    /\ w_err' = "BackendFailure"
    /\ UNCHANGED <<w_op, w_chunks, w_ns, w_embeddings, w_vectors, w_i,
                   w_before, n_index, indexed, w_last, w_batches, storeVars, readerVars>>
    /\ ChunkerUntouched

\* ---- clear ----

\* clear(ns): one delete_all call; an exception is logged and raised again.
Clear(ns) ==
    /\ w_pc = "idle"
    /\ w_op' = "clear"
    /\ w_ns' = ns
    /\ w_before' = store
    /\ w_log' = {"delete"}
    /\ w_pc' = "done"
    /\ \E ok \in BOOLEAN :
          IF ok
          THEN /\ store' = BackendDelete(store, ns)
               /\ w_err' = "none"
               /\ indexed' = FALSE
          ELSE /\ store' = store
               /\ w_err' = "BackendFailure"
               /\ indexed' = indexed
    /\ UNCHANGED <<w_chunks, w_embeddings, w_vectors, w_i, n_index, w_last, w_batches,
                   now, readerVars>>
    /\ ChunkerUntouched

\* History: the last index_chunks call as the call that is returning leaves
\* it.  An index_chunks call that returned, or raised on its own (KeyError),
\* becomes the last one; one that was refused as empty or failed by the
\* embedding model or the backend leaves none, and so does a clear that
\* emptied the namespace of the last one.
LastIndexCall ==
    IF w_op = "index"
    THEN IF w_err \in {"none", "KeyError"}
         THEN [chunks |-> w_chunks, ns |-> w_ns, err |-> w_err]
         ELSE NoIndexCall
    ELSE IF w_err = "none" /\ w_ns = w_last.ns THEN NoIndexCall
    ELSE w_last

\* index_chunks or clear hands its outcome to the caller.
WriterReturn ==
    /\ w_pc = "done"
    /\ w_pc' = "idle" /\ w_op' = "none" /\ w_chunks' = <<>> /\ w_ns' = ""
    /\ w_embeddings' = <<>> /\ w_vectors' = <<>> /\ w_i' = 0
    /\ w_err' = "none" /\ w_before' = EmptyStore /\ w_log' = {}
    /\ w_last' = LastIndexCall
    /\ w_batches' = <<>>
    /\ UNCHANGED <<n_index, indexed, storeVars, readerVars>>
    /\ ChunkerUntouched

\* ---- search ----

\* self.model.get_sentence_embedding_dimension() of all-MiniLM-L6-v2
embedding_dim == 384

\* An index_chunks call has started and not yet returned.
IndexRunning == w_op = "index" /\ w_pc \in {"delete", "encode", "build", "upsert"}

\* History: what a backend read of namespace ns shows while an index_chunks
\* call on ns is running, with the namespace as that call found it and the
\* texts it is indexing.
Observed(ns) ==
    IF IndexRunning /\ w_ns = ns
    THEN <<[seen |-> store[ns], old |-> w_before[ns],
            new |-> {w_chunks[k].text : k \in DOMAIN w_chunks}]>>
    ELSE <<>>

\* search(q, k, ns) up to its first call out.
SearchCall(q, k, ns) ==
    /\ r_pc = "idle"
    /\ r_pc' = "stats"
    /\ r_op' = "search"
    /\ r_query' = q
    /\ r_top_k' = k
    /\ r_ns' = ns
    /\ UNCHANGED <<r_qvec, r_result, r_err, r_obs, storeVars, writerVars>>
    /\ ChunkerUntouched

\* The try block of search: describe_index_stats, then the emptiness check.
\* Whatever is raised inside it, by the backend or by the check, is caught
\* and replaced by ValueError("Vector store not indexed").
SearchStats ==
    /\ r_pc = "stats"
    /\ r_obs' = r_obs \o Observed(r_ns)
    /\ \E ok \in BOOLEAN :
          IF ok /\ ~NoVectors(DescribeIndexStats(store), r_ns)
          THEN r_pc' = "encode" /\ r_err' = "none"
          ELSE r_pc' = "done" /\ r_err' = "NotIndexed"
    /\ UNCHANGED <<r_op, r_query, r_top_k, r_ns, r_qvec, r_result, storeVars,
                   writerVars>>
    /\ ChunkerUntouched

\* query_embedding = self.model.encode(query, ...), or the model raises.
SearchEncode ==
    /\ r_pc = "encode"
    /\ \E ok \in BOOLEAN :
          IF ok
          THEN r_pc' = "query" /\ r_qvec' = EmbedQuery(r_query) /\ r_err' = "none"
          ELSE r_pc' = "done" /\ r_qvec' = r_qvec /\ r_err' = "CollaboratorFailure"
    /\ UNCHANGED <<r_op, r_query, r_top_k, r_ns, r_result, r_obs, storeVars,
                   writerVars>>
    /\ ChunkerUntouched

\* SearchQuery with a query that takes what it reads out of the index.
SearchQueryConsuming ==
    /\ r_pc = "query"
    /\ r_obs' = r_obs \o Observed(r_ns)
    /\ r_pc' = "done"
    /\ \E matches \in BackendQuery(store[r_ns], r_qvec, r_top_k) :
          r_result' = FormatResults(matches)
    /\ r_err' = "none"
    /\ store' = BackendDelete(store, r_ns)
    /\ UNCHANGED <<r_op, r_query, r_top_k, r_ns, r_qvec, now, writerVars>>
    /\ ChunkerUntouched

\* search_results = self.index.query(...) and the formatting of the matches,
\* or the backend raises.
SearchQuery ==
    /\ r_pc = "query"
    /\ r_obs' = r_obs \o Observed(r_ns)
    /\ r_pc' = "done"
    /\ \/ /\ \E matches \in BackendQuery(store[r_ns], r_qvec, r_top_k) :
                r_result' = FormatResults(matches)
          /\ r_err' = "none"
       \/ /\ r_result' = r_result
          /\ r_err' = "BackendFailure"
    /\ UNCHANGED <<r_op, r_query, r_top_k, r_ns, r_qvec, storeVars, writerVars>>
    /\ ChunkerUntouched

\* ---- get_stats ----

\* The dict get_stats returns from a successful describe_index_stats.
StatsDict(stats) ==
    [index_name         |-> "html-search",
     total_vector_count |-> stats.total_vector_count,
     dimension          |-> embedding_dim,
     namespaces         |-> stats.namespaces,
     distance_metric    |-> "cosine"]

\* get_stats(): the stats dict, or {} when describe_index_stats raises.
GetStats ==
    /\ r_pc = "idle"
    /\ r_pc' = "done"
    /\ r_op' = "get_stats"
    /\ \E ok \in BOOLEAN :
          r_result' = IF ok THEN StatsDict(DescribeIndexStats(store)) ELSE <<>>
    /\ UNCHANGED <<r_query, r_top_k, r_ns, r_qvec, r_err, r_obs, storeVars,
                   writerVars>>
    /\ ChunkerUntouched

\* search or get_stats hands its outcome to the caller.
ReaderReturn ==
    /\ r_pc = "done"
    /\ r_pc' = "idle" /\ r_op' = "none" /\ r_query' = 0 /\ r_top_k' = 0
    /\ r_ns' = "" /\ r_qvec' = 0 /\ r_result' = <<>> /\ r_err' = "none"
    /\ r_obs' = <<>>
    /\ UNCHANGED <<storeVars, writerVars>>
    /\ ChunkerUntouched

\* The steps of index_chunks and clear.
WriterStep ==
    \/ \E c \in ChunkInputs(n_index + 1), ns \in Namespaces :
          IndexChunksCall(c, ns)
    \/ IndexDelete
    \/ IndexEncode
    \/ IndexEncodeFails
    \/ IndexBuildVector
    \/ IndexUpsertBatch
    \/ IndexUpsertFails
    \/ \E ns \in Namespaces : Clear(ns)
    \/ WriterReturn

\* The steps of search and get_stats.
ReaderStep ==
    \/ \E q \in Queries, k \in TopKs, ns \in Namespaces : SearchCall(q, k, ns)
    \/ SearchStats
    \/ SearchEncode
    \/ SearchQuery
    \/ GetStats
    \/ ReaderReturn

\* Callers on several threads or processes sharing the index: nothing in
\* VectorStore orders a search against a running index_chunks.
StoreNext ==
    \/ Tick
    \/ WriterStep
    \/ ReaderStep

\* One caller: a call starts only when the call before it has returned.
SeqStoreNext ==
    \/ Tick
    \/ \E c \in ChunkInputs(n_index + 1), ns \in Namespaces :
          r_pc = "idle" /\ IndexChunksCall(c, ns)
    \/ IndexDelete
    \/ IndexEncode
    \/ IndexEncodeFails
    \/ IndexBuildVector
    \/ IndexUpsertBatch
    \/ IndexUpsertFails
    \/ \E ns \in Namespaces : r_pc = "idle" /\ Clear(ns)
    \/ WriterReturn
    \/ \E q \in Queries, k \in TopKs, ns \in Namespaces :
          w_pc = "idle" /\ SearchCall(q, k, ns)
    \/ SearchStats
    \/ SearchEncode
    \/ SearchQuery
    \/ (w_pc = "idle" /\ GetStats)
    \/ ReaderReturn

\* --------------------------------------------------- the /search handler ----
\* The handler is followed as its statements read, from the check of the
\* global vector_store to the end of step 4 (the call of search).  No request
\* gets to the response formatting that follows step 4.

\* chunker = TextChunker(max_tokens=500, overlap_tokens=50)
AppMaxTokens == 500
AppOverlapTokens == 50

\* HTTP status codes the handler raises.
BadRequest == 400
InternalError == 500
ServiceUnavailable == 503

\* The steps of a request, in the order the handler lists them.
StageOrder == <<"fetch", "chunk", "index", "search">>

\* vector_store = None, no request in progress.
HandlerInit ==
    /\ vector_store = "None"
    /\ h_pc = "idle"
    /\ h_status = 0
    /\ h_stages = <<>>

\* A step of the request ends: with exception err, or normally ("none").
StageEnds(stage, err) == Append(h_stages, [stage |-> stage, err |-> err])

\* raise HTTPException(status_code=code): the request is over.
Raises(code) == h_pc' = "done" /\ h_status' = code

\* startup_event: vector_store = VectorStore(...).  It runs when the server
\* starts; a TestClient that is not entered as a context manager never runs
\* it, and then requests find the global still None.
StartupEvent ==
    /\ cpc = "ready"
    /\ h_pc = "idle"
    /\ vector_store = "None"
    /\ vector_store' = "VectorStore"
    /\ UNCHANGED <<h_pc, h_status, h_stages, chunkVars, storeVars, writerVars,
                   readerVars>>

\* POST /search arrives: if not vector_store: raise HTTPException(503).
HandlerRequest ==
    /\ cpc = "ready"
    /\ h_pc = "idle"
    /\ n_index < MaxIndexCalls
    /\ h_stages' = <<>>
    /\ IF vector_store = "None"
       THEN Raises(ServiceUnavailable)
       ELSE h_pc' = "fetch" /\ h_status' = 0
    /\ UNCHANGED <<vector_store, chunkVars, storeVars, writerVars, readerVars>>

\* Step 1: fetch_and_clean_html returns a text (never a blank one: it raises
\* on fewer than 50 characters), or raises, which becomes status 400.
HandlerFetch ==
    /\ h_pc = "fetch"
    /\ \E ok \in BOOLEAN :
          IF ok
          THEN /\ h_pc' = "chunk" /\ h_status' = h_status
               /\ h_stages' = StageEnds("fetch", "none")
          ELSE /\ Raises(BadRequest)
               /\ h_stages' = StageEnds("fetch", "HTMLFetchError")
    /\ UNCHANGED <<vector_store, chunkVars, storeVars, writerVars, readerVars>>

\* Step 2: chunks = chunker.chunk_text(clean_text), on a text of n tokens.
HandlerChunkCall(n) ==
    /\ h_pc = "chunk"
    /\ ChunkCall(n)

\* Step 2, the tokenizer raises inside chunk_text: status 500.
HandlerChunkFails ==
    /\ h_pc = "chunk"
    /\ cpc = "ready"
    /\ Raises(InternalError)
    /\ h_stages' = StageEnds("chunk", "CollaboratorFailure")
    /\ UNCHANGED <<vector_store, chunkVars, storeVars, writerVars, readerVars>>

\* if not chunks  (a variant that takes every list for non-empty comes first)
NoChunksExtractedIgnored(chunksOut) == FALSE

\* if not chunks
NoChunksExtracted(chunksOut) == chunksOut = <<>>

\* Step 2, chunk_text has returned: an empty list ends the request with
\* status 400, any other goes on to step 3.
HandlerChunked ==
    /\ h_pc = "chunk"
    /\ cpc = "done"
    /\ IF NoChunksExtracted(chunks)
       THEN /\ Raises(BadRequest)
            /\ h_stages' = StageEnds("chunk", "NoContent")
       ELSE /\ h_pc' = "index" /\ h_status' = h_status
            /\ h_stages' = StageEnds("chunk", "none")
    /\ UNCHANGED <<vector_store, chunkVars, storeVars, writerVars, readerVars>>

\* The list the handler hands to index_chunks: the chunker's records as they
\* are; their texts are known to the store by document and position.
DocChunks(d, chunksOut) ==
    [i \in DOMAIN chunksOut |->
        [chunksOut[i] EXCEPT !.text = <<d, chunksOut[i].chunk_index>>]]

\* Step 3: vector_store.index_chunks(chunks), no namespace given.
HandlerIndexCall ==
    /\ h_pc = "index"
    /\ IndexChunksCall(DocChunks(n_index + 1, chunks), "")

\* The steps of a started index_chunks call.
IndexChunksRuns ==
    \/ IndexDelete
    \/ IndexEncode
    \/ IndexEncodeFails
    \/ IndexBuildVector
    \/ IndexUpsertBatch
    \/ IndexUpsertFails

\* Step 3, index_chunks has returned or raised.  An exception becomes status
\* 500.  After a normal return step 4 evaluates request.top_k for the call of
\* search; SearchRequest has no such field, the AttributeError is caught as
\* "Search failed" and becomes status 500 before search is called.
HandlerIndexReturn ==
    /\ h_pc = "index"
    /\ w_pc = "done"
    /\ Raises(InternalError)
    /\ h_stages' = IF w_err = "none"
                   THEN Append(StageEnds("index", "none"),
                               [stage |-> "search", err |-> "AttributeError"])
                   ELSE StageEnds("index", w_err)
    /\ UNCHANGED <<vector_store, chunkVars, storeVars, writerVars, readerVars>>

\* The response (an error response in every case) goes out.
HandlerRespond ==
    /\ h_pc = "done"
    /\ h_pc' = "idle"
    /\ h_status' = 0
    /\ h_stages' = <<>>
    /\ UNCHANGED <<vector_store, chunkVars, storeVars, writerVars, readerVars>>

\* The application: the module-level chunker, the startup event, and
\* requests handled one at a time.
HandlerNext ==
    \/ Construct(AppMaxTokens, AppOverlapTokens)
    \/ StartupEvent
    \/ HandlerRequest
    \/ HandlerFetch
    \/ \E n \in 0..MaxTokens : HandlerChunkCall(n)
    \/ HandlerChunkFails
    \/ ChunkTest
    \/ ChunkBody
    \/ HandlerChunked
    \/ (h_pc # "chunk" /\ ChunkReturn)
    \/ Tick
    \/ HandlerIndexCall
    \/ (h_pc = "index" /\ IndexChunksRuns)
    \/ HandlerIndexReturn
    \/ (h_pc # "index" /\ WriterReturn)
    \/ HandlerRespond

\* ------------------------------------------------- long chunk lists ----

\* Lengths around the batch boundaries: one chunk, and for each number of
\* full batches one chunk less, exactly that, and one chunk more.
BatchLengths ==
    {1} \cup UNION {{k * batch_size - 1, k * batch_size, k * batch_size + 1} :
                        k \in 1..MaxFullBatches}

\* A list of n chunks of document d, shaped as index_chunks reads them.
LongChunkList(d, n) == [i \in 1..n |-> StoreChunk(d, i - 1)]

\* One index_chunks call on a long list, on an index as the constructor
\* found it; the clock advances before the call.
BatchNext ==
    \/ (w_pc = "idle" /\ n_index = 0 /\ Tick)
    \/ \E n \in BatchLengths, ns \in Namespaces :
          n_index = 0 /\ IndexChunksCall(LongChunkList(1, n), ns)
    \/ IndexDelete
    \/ IndexEncode
    \/ IndexEncodeFails
    \/ IndexBuildVector
    \/ IndexUpsertBatch
    \/ IndexUpsertFails
    \/ WriterReturn

ChunkNext ==
    \/ \E m \in CfgRange, o \in CfgRange : Construct(m, o)
    \/ ConstructFails
    \/ \E n \in 0..MaxTokens : ChunkCall(n)
    \/ ChunkTest
    \/ ChunkBody
    \/ ChunkReturn

Init == ChunkInit /\ StoreInit /\ HandlerInit

ChunkSpec == Init /\ [][ChunkNext]_vars

StoreSpec == Init /\ [][StoreNext]_vars

SeqStoreSpec == Init /\ [][SeqStoreNext]_vars

HandlerSpec == Init /\ [][HandlerNext]_vars

BatchSpec == Init /\ [][BatchNext]_vars

\* A running loop keeps running: the interpreter evaluates the next condition
\* and executes the next body.
ChunkFairSpec == ChunkSpec /\ WF_vars(ChunkTest) /\ WF_vars(ChunkBody)

\* ------------------------------------------------- chunker properties ----

\* The configurations the specification allows: max_tokens > overlap_tokens >= 0.
ValidCfg == max_tokens > 0 /\ overlap_tokens >= 0 /\ overlap_tokens < max_tokens

CeilDiv(a, b) == (a + b - 1) \div b

\* C3: a chunker with overlap_tokens >= max_tokens or max_tokens <= 0 is
\* never constructed: construction with such arguments fails.
InvalidConfigurationRejected ==
    cpc # "new" => (max_tokens > 0 /\ overlap_tokens < max_tokens)

\* C4: whatever chunker construction accepted and whatever the token
\* sequence, a chunk_text call that entered its loop eventually leaves it.
ChunkTextTerminates == (cpc \in {"loop", "body"}) ~> (cpc = "done")

\* C5: with max_tokens > overlap_tokens >= 0 and N >= 1 tokens, every chunk
\* has 0 <= start_token < end_token <= N and
\* token_count = end_token - start_token <= max_tokens, and the returned
\* sequence is non-empty and ends with a chunk whose end_token is N.
ChunkBoundsHold ==
    (ValidCfg /\ Len(tokens) >= 1 /\ cpc \in {"loop", "body", "done"}) =>
        /\ \A i \in 1..Len(chunks) :
              /\ 0 <= chunks[i].start_token
              /\ chunks[i].start_token < chunks[i].end_token
              /\ chunks[i].end_token <= Len(tokens)
              /\ chunks[i].token_count
                     = chunks[i].end_token - chunks[i].start_token
              /\ chunks[i].token_count <= max_tokens
        /\ cpc = "done" =>
              /\ chunks # <<>>
              /\ chunks[Len(chunks)].end_token = Len(tokens)

\* C5 witness: a returned sequence of several overlapping chunks whose last
\* chunk is cut short by the end of the tokens.
ChunkBoundsWitness ==
    /\ cpc = "done" /\ ValidCfg /\ overlap_tokens > 0
    /\ Len(chunks) >= 3
    /\ chunks[Len(chunks)].token_count < max_tokens
    /\ chunks[Len(chunks)].end_token = Len(tokens)

\* C6: with max_tokens > overlap_tokens >= 0 the number of chunks returned
\* is 0 for N = 0, 1 for 1 <= N <= max_tokens, and
\* ceil((N - overlap_tokens) / (max_tokens - overlap_tokens)) for
\* N > max_tokens.
ChunkCountFormula ==
    (ValidCfg /\ cpc = "done") =>
        Len(chunks) =
            IF Len(tokens) = 0 THEN 0
            ELSE IF Len(tokens) <= max_tokens THEN 1
            ELSE CeilDiv(Len(tokens) - overlap_tokens,
                         max_tokens - overlap_tokens)

\* C6 witness: N > max_tokens with an overlap, where the ceiling rounds up.
ChunkCountWitness ==
    /\ cpc = "done" /\ ValidCfg /\ overlap_tokens > 0
    /\ Len(tokens) > max_tokens
    /\ (Len(tokens) - overlap_tokens) % (max_tokens - overlap_tokens) # 0
    /\ Len(chunks) >= 2

\* C7: with max_tokens > overlap_tokens >= 0, consecutive chunks satisfy
\* start_token[i+1] = end_token[i] - overlap_tokens (below end_token[i] with
\* an overlap, equal to it without), end_token strictly increases, the first
\* chunk starts at 0 and chunk_index is the zero-based position.
ConsecutiveChunksOverlap ==
    (ValidCfg /\ cpc \in {"loop", "body", "done"}) =>
        /\ chunks # <<>> => chunks[1].start_token = 0
        /\ \A i \in 1..Len(chunks) : chunks[i].chunk_index = i - 1
        /\ \A i \in 1..(Len(chunks) - 1) :
              /\ chunks[i + 1].start_token
                     = chunks[i].end_token - overlap_tokens
              /\ overlap_tokens > 0 =>
                     chunks[i + 1].start_token < chunks[i].end_token
              /\ overlap_tokens = 0 =>
                     chunks[i + 1].start_token = chunks[i].end_token
              /\ chunks[i + 1].end_token > chunks[i].end_token

\* C7 witness: three returned chunks, each starting inside its predecessor.
ConsecutiveChunksWitness ==
    /\ cpc = "done" /\ ValidCfg /\ overlap_tokens > 0
    /\ Len(chunks) >= 3
    /\ chunks[2].start_token < chunks[1].end_token
    /\ chunks[3].start_token < chunks[2].end_token

\* ---------------------------------------------- vector store properties ----

\* The texts index_chunks was handed.
ChunkTexts(chunksIn) == {chunksIn[k].text : k \in DOMAIN chunksIn}

\* The texts a set of vectors carries.
VectorTexts(vecs) == {v.metadata.text : v \in vecs}

\* An index_chunks call has just returned without raising.
IndexSucceeded == w_pc = "done" /\ w_op = "index" /\ w_err = "none"

\* An index_chunks call on a non-empty list has just raised.
IndexFailed ==
    w_pc = "done" /\ w_op = "index" /\ w_err \notin {"none", "EmptyInput"}

\* C1: when an index_chunks call on the default namespace has succeeded, the
\* count stats reports for that namespace is the number of chunks of that
\* call, and the namespace holds vectors of that call only.  (Stated for an
\* index that holds no vector of an earlier process, so that every vector
\* counted was put there by an index_chunks call of this store.)
IndexReplacesPriorVectors ==
    (IndexSucceeded /\ w_ns = "" /\ LeftoverVector \notin store[""]) =>
        /\ NamespaceCount(DescribeIndexStats(store), "") = Len(w_chunks)
        /\ VectorTexts(store[""]) = ChunkTexts(w_chunks)

\* C2: when an index_chunks call has failed after it started, the stored
\* vectors are those the call found.
FailedIndexLeavesStore == IndexFailed => store = w_before

\* C8: a search on a store into which no index_chunks call has upserted
\* since it was constructed, or since it was last cleared, fails with
\* NotIndexed (unless the embedding model or the backend query itself
\* failed): it returns no results.
SearchBeforeIndexNotIndexed ==
    (/\ r_pc = "done" /\ r_op = "search" /\ ~indexed
     /\ r_err \notin {"CollaboratorFailure", "BackendFailure"})
        => r_err = "NotIndexed"

\* C9: index_chunks on an empty list raises EmptyInput, has issued no
\* delete, embedding or upsert, and the stored vectors of every namespace
\* are those the call found.
EmptyIndexRejected ==
    (w_pc = "done" /\ w_op = "index" /\ w_chunks = <<>>) =>
        /\ w_err = "EmptyInput"
        /\ w_log = {}
        /\ store = w_before

\* C9 witness: the empty list was handed in for a namespace that holds
\* vectors, and the call has raised.
EmptyIndexWitness ==
    /\ w_pc = "done" /\ w_op = "index" /\ w_chunks = <<>>
    /\ w_ns = "a" /\ store["a"] # {}
    /\ w_err = "EmptyInput"

\* C10: whatever a search reads from the backend while an index_chunks call
\* on its namespace is running is the complete vector set from before that
\* call or the complete set of that call's vectors.
SearchSeesOldOrNew ==
    \A k \in DOMAIN r_obs :
        \/ r_obs[k].seen = r_obs[k].old
        \/ /\ VectorTexts(r_obs[k].seen) = r_obs[k].new
           /\ Cardinality(r_obs[k].seen) = Cardinality(r_obs[k].new)

\* A search call was failed by the embedding model or the backend: the model
\* or the query raised, or the stats call raised (reported as NotIndexed
\* although the index holds vectors to search).
SearchFailedOutside ==
    \/ r_err \in {"CollaboratorFailure", "BackendFailure"}
    \/ r_err = "NotIndexed" /\ ~NoVectors(DescribeIndexStats(store), r_ns)

\* C11: a search with top_k >= 1 that follows an index_chunks call on n >= 1
\* chunks, of the shape the tests use or of the shape the chunker emits, on
\* a namespace that holds nothing but that call's vectors, returns exactly
\* min(top_k, n) pairs (no failure of the embedding model or the backend in
\* either call).
SearchReturnsMinTopK ==
    (/\ r_pc = "done" /\ r_op = "search" /\ r_top_k >= 1
     /\ w_last.chunks # <<>> /\ w_last.ns = r_ns
     /\ ~SearchFailedOutside
     /\ VectorTexts(store[r_ns]) \subseteq ChunkTexts(w_last.chunks))
        => /\ r_err = "none"
           /\ Len(r_result) = Min(r_top_k, Len(w_last.chunks))

\* The document and the position in it of the chunk of a result pair.
ResultDoc(pair) == pair[1].text[1]
ResultPosition(pair) == pair[1].text[2]

\* C12: the pairs a search returns are in order of non-increasing score, and
\* of two chunks of one index call with equal scores the one with the
\* smaller position comes first.
TiesInIndexingOrder ==
    (r_pc = "done" /\ r_op = "search" /\ r_err = "none") =>
        \A j \in 1..(Len(r_result) - 1) :
            /\ r_result[j][2] >= r_result[j + 1][2]
            /\ (/\ r_result[j][2] = r_result[j + 1][2]
                /\ ResultDoc(r_result[j]) = ResultDoc(r_result[j + 1]))
                   => ResultPosition(r_result[j])
                          < ResultPosition(r_result[j + 1])

\* C13: when an index_chunks call on a non-empty namespace has succeeded,
\* that namespace holds exactly the vectors of the call's chunks, one each,
\* and every other namespace holds what it held when the call started.
IndexReplacesOnlyNamespace ==
    (IndexSucceeded /\ w_ns # "") =>
        /\ VectorTexts(store[w_ns]) = ChunkTexts(w_chunks)
        /\ Cardinality(store[w_ns]) = Len(w_chunks)
        /\ \A ns \in Namespaces \ {w_ns} : store[ns] = w_before[ns]

\* C14: get_stats returns a count and a dimension whatever the backend does:
\* the dimension is the embedding dimension, and on an index without
\* vectors the count is 0.
StatsAlwaysHasCount ==
    (r_pc = "done" /\ r_op = "get_stats") =>
        /\ {"total_vector_count", "dimension"} \subseteq DOMAIN r_result
        /\ r_result.dimension = embedding_dim
        /\ store = EmptyStore => r_result.total_vector_count = 0

\* C15: when clear() has returned (it raises only if the backend's delete
\* raised), the index holds no vector in any namespace.
ClearEmptiesStore ==
    (w_pc = "done" /\ w_op = "clear" /\ w_ns = "" /\ w_err # "BackendFailure")
        => /\ w_err = "none"
           /\ store = EmptyStore

\* C16: no step of search or get_stats, successful or failed, changes the
\* stored vectors.
ReadsLeaveStore == [][readerVars' # readerVars => store' = store]_vars

\* C16 witness: a search has returned pairs from a namespace that holds
\* vectors.
ReadsLeaveStoreWitness ==
    /\ r_pc = "done" /\ r_op = "search" /\ r_err = "none"
    /\ r_result # <<>>
    /\ Cardinality(store[r_ns]) = Len(r_result)

\* C18: a search fails with NotIndexed only when the index (for the default
\* namespace) or the searched namespace holds no vector.
NotIndexedOnlyWhenEmpty ==
    (r_pc = "done" /\ r_op = "search" /\ r_err = "NotIndexed")
        => NoVectors(DescribeIndexStats(store), r_ns)

HandlerIndexAcceptsChunks ==
    \A i \in DOMAIN h_stages :
        (/\ h_stages[i].stage = "index"
         /\ h_stages[i].err \notin {"CollaboratorFailure", "BackendFailure"})
            => /\ h_stages[i].err = "none"
               /\ i < Len(h_stages)
               /\ h_stages[i + 1].stage = "search"

\* C20: the steps of a request end in the order fetch, chunk, index, search,
\* each after the one before it ended normally; index_chunks is never called
\* with an empty list, which (returned by the chunker) ends the request with
\* status 400 after the chunk step; the chunker and index_chunks run only in their own step; and
\* while vector_store is None a request ends with status 503 and no step.
HandlerStagesInOrder ==
    /\ Len(h_stages) <= Len(StageOrder)
    /\ \A i \in DOMAIN h_stages :
          /\ h_stages[i].stage = StageOrder[i]
          /\ i > 1 => h_stages[i - 1].err = "none"
    /\ w_op = "index" => w_chunks # <<>>
    /\ (/\ Len(h_stages) >= 2 /\ chunks = <<>>
        /\ h_stages[2].err # "CollaboratorFailure") =>
          /\ h_pc = "done" /\ h_status = BadRequest
          /\ Len(h_stages) = 2
    /\ cpc \in {"loop", "body"} =>
          h_pc = "chunk" /\ Len(h_stages) = 1
    /\ w_pc \in {"delete", "encode", "build", "upsert"} =>
          h_pc = "index" /\ Len(h_stages) = 2
    /\ vector_store = "None" =>
          /\ h_stages = <<>>
          /\ h_pc \in {"idle", "done"}
          /\ h_pc = "done" => h_status = ServiceUnavailable
          /\ cpc \in {"new", "ready"} /\ w_pc = "idle"
    /\ h_status = ServiceUnavailable => h_stages = <<>>

\* C20 witness: the chunker returned an empty list and the request ended
\* with status 400 after the steps fetch and chunk, index_chunks not called.
HandlerStagesWitness ==
    /\ h_pc = "done" /\ h_status = BadRequest
    /\ Len(h_stages) = 2 /\ h_stages[2].err = "NoContent"
    /\ chunks = <<>> /\ w_pc = "idle" /\ n_index = 0

\* ------------------------------------------------- batching property ----

\* The vectors of a sequence of batches, in order.
RECURSIVE Flatten(_)
Flatten(batches) ==
    IF batches = <<>> THEN <<>>
    ELSE Flatten(SubSeq(batches, 1, Len(batches) - 1))
             \o batches[Len(batches)]

\* C21: the batches an index_chunks call has upserted hold, one after the
\* other, the first vectors of the call in input order, each once, in
\* batches of 1 to 100 vectors of which only the last may be short; the
\* vector at position k carries chunk_index k and the text of chunk k; and
\* when the call on n chunks has succeeded, all n vectors were upserted, in
\* ceil(n / 100) batches, and are in the namespace.
UpsertsInBatches ==
    w_op = "index" =>
        /\ \A b \in DOMAIN w_batches :
              /\ Len(w_batches[b]) >= 1
              /\ Len(w_batches[b]) <= batch_size
              /\ b < Len(w_batches) => Len(w_batches[b]) = batch_size
        /\ Flatten(w_batches)
               = SubSeq(w_vectors, 1, Min(w_i, Len(w_vectors)))
        /\ \A k \in DOMAIN w_vectors :
              /\ w_vectors[k].metadata.chunk_index = k - 1
              /\ w_vectors[k].metadata.text = w_chunks[k].text
        /\ IndexSucceeded =>
              /\ Len(w_vectors) = Len(w_chunks)
              /\ Flatten(w_batches) = w_vectors
              /\ Len(w_batches) = CeilDiv(Len(w_chunks), batch_size)
              /\ Range(w_vectors) \subseteq store[w_ns]

\* C21 witness: a call on more than two full batches' worth of chunks has
\* succeeded, with a short last batch.
UpsertsInBatchesWitness ==
    /\ IndexSucceeded
    /\ Len(w_chunks) > 2 * batch_size
    /\ Len(w_batches) >= 3
    /\ Len(w_batches[Len(w_batches)]) < batch_size

====
